---- MODULE Spec2Model ----
(***************************************************************************)
(* Subscription escrow contract (onchain/contract.py, onchain/utils.py)    *)
(* and the ledger that runs it.  The validator is a pure operator over     *)
(* (datum, redeemer, context); the state machine is the set of locked      *)
(* outputs at the script address, a submitted transaction with the         *)
(* validator's verdict, and the ledger's commit or refusal of it.          *)
(***************************************************************************)
EXTENDS Integers, Sequences, FiniteSets, TLC

\* ------------------------------------------------------------------ bounds
MaxTime == 2        \* POSIX times in datums and validity bounds: 0..MaxTime
MaxQty == 3         \* token quantities in outputs: 0..MaxQty
MaxAmount == 2      \* payment_amount and payment_intervall: 1..MaxAmount
MaxSubs == 2        \* subscriptions collected in one transaction: 1..MaxSubs

\* --------------------------------------------------------------- constants
OK == "OK"
ScriptAddress == "script"
WalletAddress == "wallet"
Owner == "owner"
ModelOwner == "model_owner"

\* opshin.prelude Token(policy_id, token_name); Token(b"", b"") is ADA
ADA == [policy_id |-> "", token_name |-> ""]
TOK == [policy_id |-> "policy", token_name |-> "tok"]

\* ------------------------------------------------- extended POSIX time
FinitePOSIXTime(t) == [kind |-> "Finite", time |-> t]
NegInfPOSIXTime == [kind |-> "NegInf", time |-> 0]
PosInfPOSIXTime == [kind |-> "PosInf", time |-> 0]

\* opshin.ledger.interval.compare: a < b: 1, a == b: 0, a > b: -1
compare(a, b) ==
  IF a < b THEN 1 ELSE IF a = b THEN 0 ELSE -1

compare_extended_helper(time) ==
  IF time.kind = "NegInf" THEN -1
  ELSE IF time.kind = "Finite" THEN 0
  ELSE 1

compare_extended(a, b) ==
  LET a_val == compare_extended_helper(a)
      b_val == compare_extended_helper(b)
  IN IF a_val = 0 /\ b_val = 0 THEN compare(a.time, b.time)
     ELSE compare(a_val, b_val)

UpperBoundPOSIXTime(limit, closed) == [limit |-> limit, closed |-> closed]
LowerBoundPOSIXTime(limit, closed) == [limit |-> limit, closed |-> closed]
POSIXTimeRange(lower, upper) == [lower_bound |-> lower, upper_bound |-> upper]

\* a tie counted as "equal" as soon as one of the bounds is closed
compare_upper_lower_bound_either_closed(a, b) ==
  LET result == compare_extended(a.limit, b.limit)
  IN IF result = 0
     THEN (IF a.closed \/ b.closed THEN 0 ELSE 1)
     ELSE result

\* a tie counted as "less" whatever the closures are
compare_upper_lower_bound_tie_less(a, b) ==
  LET result == compare_extended(a.limit, b.limit)
  IN IF result = 0 THEN 1 ELSE result

compare_upper_lower_bound(a, b) ==
  LET result == compare_extended(a.limit, b.limit)
  IN IF result = 0
     THEN (IF a.closed /\ b.closed THEN 0 ELSE 1)
     ELSE result

after_ext(a, b) ==
  compare_upper_lower_bound(UpperBoundPOSIXTime(b, TRUE), a.lower_bound) = 1

\* ---------------------------------------------------------------- values
\* output.value: policy id -> (token name -> quantity)
Get(f, k, default) == IF k \in DOMAIN f THEN f[k] ELSE default

MkValue(token, q) == token.policy_id :> (token.token_name :> q)

\* a missing policy id answered from the ADA entry of the value
amount_of_token_in_output_ada_fallback(token, output) ==
  Get(Get(output.value, token.policy_id, Get(output.value, "", ("" :> 0))),
      token.token_name, 0)

amount_of_token_in_output(token, output) ==
  Get(Get(output.value, token.policy_id, ("" :> 0)), token.token_name, 0)

\* ---------------------------------------------------------------- datums
SubscriptionDatum(owner, model_owner, next, intervall, amount, token, paused, pstart) ==
  [owner_pubkeyhash |-> owner,
   model_owner_pubkeyhash |-> model_owner,
   next_payment_date |-> next,
   payment_intervall |-> intervall,
   payment_amount |-> amount,
   payment_token |-> token,
   is_paused |-> paused,
   pause_start_time |-> pstart]

\* TxOut.datum: NoOutputDatum | SomeOutputDatum(d) | SomeOutputDatumHash(h);
\* a hash is modelled by the datum it is the hash of
NoOutputDatum == [kind |-> "NoOutputDatum", datum |-> <<>>]
SomeOutputDatum(d) == [kind |-> "SomeOutputDatum", datum |-> <<d>>]
SomeOutputDatumHash(d) == [kind |-> "SomeOutputDatumHash", datum |-> <<d>>]

TxOut(address, value, datum) == [address |-> address, value |-> value, datum |-> datum]

\* opshin resolve_datum_unsafe: <<reason, datum sequence>>
resolve_datum_unsafe(txout, tx_info) ==
  IF txout.datum.kind = "SomeOutputDatumHash"
  THEN (IF txout.datum.datum[1] \in tx_info.data
        THEN <<OK, txout.datum.datum>>
        ELSE <<"KeyError", <<>> >>)
  ELSE IF txout.datum.kind = "SomeOutputDatum"
  THEN <<OK, txout.datum.datum>>
  ELSE <<"No datum was attached to the given transaction output", <<>> >>

\* ------------------------------------------------------------- redeemers
UnlockPayment(i, o) ==
  [kind |-> "UnlockPayment", input_index |-> i, output_index |-> o, pause |-> FALSE]
UpdateSubscription ==
  [kind |-> "UpdateSubscription", input_index |-> 0, output_index |-> 0, pause |-> FALSE]
PauseResumeSubscription(p) ==
  [kind |-> "PauseResumeSubscription", input_index |-> 0, output_index |-> 0, pause |-> p]
\* a redeemer of none of the three classes
OtherRedeemer ==
  [kind |-> "Other", input_index |-> 0, output_index |-> 0, pause |-> FALSE]

\* Python list indexing: 0-based, negative indices count from the end
InRange(s, i) == (0 - Len(s)) <= i /\ i < Len(s)
At(s, i) == IF i >= 0 THEN s[i + 1] ELSE s[Len(s) + i + 1]

\* ------------------------------------------------------------- validator
\* the successor datum the UnlockPayment branch computes (contract.py 103-115)
UnlockExpectedDatum(datum) ==
  SubscriptionDatum(
    datum.owner_pubkeyhash,
    datum.model_owner_pubkeyhash,
    FinitePOSIXTime(datum.next_payment_date.time + datum.payment_intervall),
    datum.payment_intervall,
    datum.payment_amount,
    datum.payment_token,
    datum.is_paused,
    datum.pause_start_time)

\* the pause that leaves pause_start_time as it was
PauseExpectedDatum_keeps_start(datum, current_time) ==
  [datum EXCEPT !.is_paused = TRUE]

\* the successor datum the pause branch requires (contract.py 137-146)
PauseExpectedDatum(datum, current_time) ==
  SubscriptionDatum(
    datum.owner_pubkeyhash,
    datum.model_owner_pubkeyhash,
    datum.next_payment_date,
    datum.payment_intervall,
    datum.payment_amount,
    datum.payment_token,
    TRUE,
    FinitePOSIXTime(current_time))

\* the resume that does not extend next_payment_date
ResumeExpectedDatum_no_extension(datum, current_time) ==
  [datum EXCEPT !.is_paused = FALSE, !.pause_start_time = FinitePOSIXTime(0)]

\* the resume that takes the whole of current_time for the pause duration
ResumeExpectedDatum_from_zero(datum, current_time) ==
  [datum EXCEPT !.is_paused = FALSE, !.pause_start_time = FinitePOSIXTime(0),
                !.next_payment_date =
                   FinitePOSIXTime(datum.next_payment_date.time + current_time)]

\* the resume that does not reset pause_start_time
ResumeExpectedDatum_keeps_start(datum, current_time) ==
  [datum EXCEPT !.is_paused = FALSE,
                !.next_payment_date =
                   FinitePOSIXTime(datum.next_payment_date.time
                                   + (current_time - datum.pause_start_time.time))]

\* the successor datum the resume branch requires (contract.py 151-166)
ResumeExpectedDatum(datum, current_time) ==
  LET pause_duration == current_time - datum.pause_start_time.time
      extended_payment_date ==
        FinitePOSIXTime(datum.next_payment_date.time + pause_duration)
  IN SubscriptionDatum(
       datum.owner_pubkeyhash,
       datum.model_owner_pubkeyhash,
       extended_payment_date,
       datum.payment_intervall,
       datum.payment_amount,
       datum.payment_token,
       FALSE,
       FinitePOSIXTime(0))

\* the funds guard with >= for > (exactly input - payment_amount accepted)
EnoughFundsReturned_ge(datum, own_input, own_output) ==
  amount_of_token_in_output(datum.payment_token, own_output)
    >= amount_of_token_in_output(datum.payment_token, own_input) - datum.payment_amount

\* the funds guard with the operands of the subtraction swapped
EnoughFundsReturned_swapped(datum, own_input, own_output) ==
  amount_of_token_in_output(datum.payment_token, own_output)
    > datum.payment_amount - amount_of_token_in_output(datum.payment_token, own_input)

\* the funds guard with the minimum taken from the output instead of the input
EnoughFundsReturned_wrong_operand(datum, own_input, own_output) ==
  amount_of_token_in_output(datum.payment_token, own_output)
    > amount_of_token_in_output(datum.payment_token, own_output) - datum.payment_amount

\* the owner's signature taken for the model owner's
model_owner_is_signing_any_party(datum, tx_info) ==
  \/ datum.model_owner_pubkeyhash \in tx_info.signatories
  \/ datum.owner_pubkeyhash \in tx_info.signatories

\* contract.py 82-84 and 121-123
model_owner_is_signing(datum, tx_info) ==
  datum.model_owner_pubkeyhash \in tx_info.signatories

\* an update refused while the subscription is paused
owner_is_updating_unless_paused(datum, tx_info) ==
  datum.owner_pubkeyhash \in tx_info.signatories /\ ~datum.is_paused

\* contract.py 71
owner_is_updating(datum, tx_info) ==
  datum.owner_pubkeyhash \in tx_info.signatories

\* the pause check left out
NotPaused_unchecked(datum) == TRUE

\* contract.py 88
NotPaused(datum) == ~datum.is_paused

\* guard (3) of UnlockPayment (contract.py 95-100)
EnoughFundsReturned(datum, own_input, own_output) ==
  LET input_amount == amount_of_token_in_output(datum.payment_token, own_input)
      output_amount == amount_of_token_in_output(datum.payment_token, own_output)
      min_amount == input_amount - datum.payment_amount
  IN output_amount > min_amount

\* the pause check made before the signature check
UnlockPaymentBranch_paused_first(datum, redeemer, tx_info) ==
  IF ~InRange(tx_info.inputs, redeemer.input_index) THEN "IndexError"
  ELSE IF ~InRange(tx_info.outputs, redeemer.output_index) THEN "IndexError"
  ELSE
    LET own_input == At(tx_info.inputs, redeemer.input_index)
        own_output == At(tx_info.outputs, redeemer.output_index)
    IN IF ~NotPaused(datum)
       THEN "Cannot unlock payment while subscription is paused"
       ELSE IF ~model_owner_is_signing(datum, tx_info)
       THEN "Required Model Owner Signature missing"
       ELSE IF ~after_ext(tx_info.valid_range, datum.next_payment_date)
       THEN ""
       ELSE IF ~EnoughFundsReturned(datum, own_input, own_output)
       THEN "Not enough funds returned to contract"
       ELSE resolve_datum_unsafe(own_output, tx_info)[1]

\* the signature and pause guards evaluated before the lookups
UnlockPaymentBranch_guards_first(datum, redeemer, tx_info) ==
  IF ~model_owner_is_signing(datum, tx_info)
  THEN "Required Model Owner Signature missing"
  ELSE IF ~NotPaused(datum)
  THEN "Cannot unlock payment while subscription is paused"
  ELSE IF ~InRange(tx_info.inputs, redeemer.input_index) THEN "IndexError"
  ELSE IF ~InRange(tx_info.outputs, redeemer.output_index) THEN "IndexError"
  ELSE
    LET own_input == At(tx_info.inputs, redeemer.input_index)
        own_output == At(tx_info.outputs, redeemer.output_index)
    IN IF ~after_ext(tx_info.valid_range, datum.next_payment_date)
       THEN ""
       ELSE IF ~EnoughFundsReturned(datum, own_input, own_output)
       THEN "Not enough funds returned to contract"
       ELSE resolve_datum_unsafe(own_output, tx_info)[1]

UnlockPaymentBranch(datum, redeemer, tx_info) ==
  IF ~InRange(tx_info.inputs, redeemer.input_index) THEN "IndexError"
  ELSE IF ~InRange(tx_info.outputs, redeemer.output_index) THEN "IndexError"
  ELSE
    LET own_input == At(tx_info.inputs, redeemer.input_index)
        own_output == At(tx_info.outputs, redeemer.output_index)
    IN IF ~model_owner_is_signing(datum, tx_info)
       THEN "Required Model Owner Signature missing"
       ELSE IF ~NotPaused(datum)
       THEN "Cannot unlock payment while subscription is paused"
       ELSE IF ~after_ext(tx_info.valid_range, datum.next_payment_date)
       THEN ""
       ELSE IF ~EnoughFundsReturned(datum, own_input, own_output)
       THEN "Not enough funds returned to contract"
       \* the expected datum is computed and the output datum resolved,
       \* and the two are never compared
       ELSE resolve_datum_unsafe(own_output, tx_info)[1]

\* the assertion opening each arm of `if redeemer.pause`: OK, or its message
PauseStateReason(datum, redeemer) ==
  IF redeemer.pause
  THEN IF ~datum.is_paused THEN OK ELSE "Subscription is already paused"
  ELSE IF datum.is_paused THEN OK ELSE "Subscription is not paused"

\* contract.py 131 reads tx_info.valid_range.valid_range.lower_bound.time:
\* taken as the time of the validity range's lower bound, as the contexts
\* of the tests provide it; a lower bound at infinity has no time
PauseResumeBranch(datum, redeemer, tx_info) ==
  IF ~model_owner_is_signing(datum, tx_info)
  THEN "Required Model Owner Signature missing for pause/resume"
  ELSE IF ~InRange(tx_info.inputs, 0) THEN "IndexError"
  ELSE IF ~InRange(tx_info.outputs, 0) THEN "IndexError"
  ELSE IF tx_info.valid_range.lower_bound.limit.kind # "Finite"
  THEN "AttributeError"
  ELSE
    LET own_input == At(tx_info.inputs, 0)
        own_output == At(tx_info.outputs, 0)
        current_time == tx_info.valid_range.lower_bound.limit.time
        resolved == resolve_datum_unsafe(own_output, tx_info)
    IN IF PauseStateReason(datum, redeemer) # OK
       THEN PauseStateReason(datum, redeemer)
       ELSE
         LET new_subscription_datum ==
               IF redeemer.pause THEN PauseExpectedDatum(datum, current_time)
               ELSE ResumeExpectedDatum(datum, current_time)
         IN IF resolved[1] # OK THEN resolved[1]
            ELSE IF resolved[2] # <<new_subscription_datum>>
            THEN "Output datum does not match expected pause/resume datum"
            ELSE IF amount_of_token_in_output(datum.payment_token, own_input)
                      # amount_of_token_in_output(datum.payment_token, own_output)
            THEN "Funds must remain the same during pause/resume"
            ELSE OK

\* every purpose taken for a spend
is_spending_any_purpose(purpose) == TRUE

\* isinstance(purpose, Spending)
is_spending(purpose) == purpose.kind = "Spending"

UpdateSubscriptionBranch(datum, tx_info) ==
  IF owner_is_updating(datum, tx_info) THEN OK
  ELSE "Required Subscription Owner Signature missing"

\* a redeemer of no known class let through
dispatch_unknown_accepted(datum, redeemer, tx_info) ==
  IF redeemer.kind = "UpdateSubscription"
  THEN UpdateSubscriptionBranch(datum, tx_info)
  ELSE IF redeemer.kind = "UnlockPayment"
  THEN UnlockPaymentBranch(datum, redeemer, tx_info)
  ELSE IF redeemer.kind = "PauseResumeSubscription"
  THEN PauseResumeBranch(datum, redeemer, tx_info)
  ELSE OK

\* the if / elif / elif / else over the redeemer's class
dispatch(datum, redeemer, tx_info) ==
  IF redeemer.kind = "UpdateSubscription"
  THEN UpdateSubscriptionBranch(datum, tx_info)
  ELSE IF redeemer.kind = "UnlockPayment"
  THEN UnlockPaymentBranch(datum, redeemer, tx_info)
  ELSE IF redeemer.kind = "PauseResumeSubscription"
  THEN PauseResumeBranch(datum, redeemer, tx_info)
  ELSE "Invalid Redeemer"

\* validator(datum, redeemer, context): OK, or the reason of the failure
\* (the assertion's message, "" for the assertion without one, the
\* exception's name for a failed lookup)
validator(datum, redeemer, context) ==
  LET tx_info == context.tx_info
      purpose == context.purpose
  IN IF ~is_spending(purpose) THEN "Wrong type of script invocation"
     ELSE dispatch(datum, redeemer, tx_info)

\* ------------------------------------------------------------------ state
VARIABLES
  utxos,     \* the unspent outputs locked at the script address
  pending,   \* <<>>, or <<the submitted spend with the validator's verdict>>
  due,       \* <<>>, or <<earliest due time of the next installment>> counted
             \* from the last collection in a run the owner has not signed
  pause_record,  \* <<>>, or <<the pause the last committed transaction made>>
  probe,     \* <<>>, or <<arguments and results of one call of onchain/utils.py>>
  outcome    \* <<>>, or what became of each of two transactions in pending
             \* that consume the same output: "waiting", "applied", "rejected"

vars == <<utxos, pending, due, pause_record, probe, outcome>>

ScriptContext(inputs, outputs, signatories, valid_range, data, purpose) ==
  [tx_info |-> [inputs |-> inputs, outputs |-> outputs,
                signatories |-> signatories, valid_range |-> valid_range,
                data |-> data],
   purpose |-> purpose]

Spending == [kind |-> "Spending"]
Minting == [kind |-> "Minting"]

DatumOf(u) == u.datum.datum[1]

\* ------------------------------------------------- transactions submitted
Signers == SUBSET {Owner, ModelOwner}

LowerBounds ==
  {LowerBoundPOSIXTime(NegInfPOSIXTime, TRUE), LowerBoundPOSIXTime(PosInfPOSIXTime, TRUE)}
  \cup {LowerBoundPOSIXTime(FinitePOSIXTime(t), c) : t \in 0..MaxTime, c \in BOOLEAN}

ValidRanges ==
  {POSIXTimeRange(l, UpperBoundPOSIXTime(PosInfPOSIXTime, TRUE)) : l \in LowerBounds}

\* the ranges a builder's validity start gives: the lower bound inclusive.
\* They are the ranges offered to the branches that never read the bound's
\* closure (contract.py 68-73, 118-175)
ClosedRanges == {r \in ValidRanges : r.lower_bound.closed}

Quantities == 0..MaxQty

\* datums the model keeps on the ledger: times within the bounds
DatumInBounds(d) ==
  /\ d.next_payment_date.time \in 0..MaxTime
  /\ d.pause_start_time.time \in 0..MaxTime

\* a fee-paying input of the submitter and a payout to the submitter
WalletInputs ==
  {TxOut(WalletAddress, MkValue(ADA, MaxQty), NoOutputDatum),
   TxOut(WalletAddress, MkValue(TOK, 1), NoOutputDatum)}
Payout(q) == TxOut(WalletAddress, MkValue(ADA, q), NoOutputDatum)

Successor(q, od) == TxOut(ScriptAddress, MkValue(ADA, q), od)

\* a datum that differs from d in the amount owed per interval
Inflate(d) ==
  [d EXCEPT !.payment_amount = IF d.payment_amount = MaxAmount THEN 1 ELSE MaxAmount]

LowerTime(r) ==
  IF r.lower_bound.limit.kind = "Finite" THEN r.lower_bound.limit.time ELSE 0

\* the datums a submitter may write into the successor output
Proposals(d, r) ==
  {x \in {d,
          UnlockExpectedDatum(d),
          Inflate(UnlockExpectedDatum(d)),
          PauseExpectedDatum(d, LowerTime(r)),
          ResumeExpectedDatum(d, LowerTime(r))} : DatumInBounds(x)}

OutputDatums(d, r) ==
  {NoOutputDatum} \cup {SomeOutputDatum(x) : x \in Proposals(d, r)}

Submission(u, redeemer, context) ==
  [utxo |-> u, redeemer |-> redeemer, context |-> context,
   verdict |-> validator(DatumOf(u), redeemer, context)]

\* --------------------------------------------------------------- actions
Init ==
  /\ utxos = {}
  /\ pending = <<>>
  /\ due = <<>>
  /\ pause_record = <<>>
  /\ probe = <<>>
  /\ outcome = <<>>

\* offchain/user/create_subscription.py: the owner locks an initial balance
\* for the shortest or the longest payment interval
CreateSubscription ==
  /\ utxos = {}
  /\ pending = <<>>
  /\ \E t \in 0..MaxTime, intervall \in {1, MaxAmount}, amount \in 1..MaxAmount,
        balance \in 1..MaxQty :
       /\ balance >= amount
       /\ utxos' = {TxOut(ScriptAddress, MkValue(ADA, balance),
                      SomeOutputDatum(SubscriptionDatum(Owner, ModelOwner,
                         FinitePOSIXTime(t), intervall, amount, ADA,
                         FALSE, FinitePOSIXTime(0))))}
  /\ due' = <<>>
  /\ pause_record' = <<>>
  /\ UNCHANGED <<pending, probe, outcome>>

\* a spend with UnlockPayment, as the model owner's builders or anyone may
\* construct it
SubmitUnlockPayment ==
  /\ pending = <<>>
  /\ \E u \in utxos, r \in ValidRanges, q \in Quantities :
       LET d == DatumOf(u)
           expected == SomeOutputDatum(UnlockExpectedDatum(d))
           hashed == SomeOutputDatumHash(UnlockExpectedDatum(d))
       IN \/ \E s \in Signers, od \in OutputDatums(d, r) :
               pending' = <<Submission(u, UnlockPayment(0, 0),
                   ScriptContext(<<u>>, <<Successor(q, od)>>, s, r, {}, Spending))>>
          \/ /\ DatumInBounds(UnlockExpectedDatum(d))
             /\ \/ \E w \in WalletInputs, i \in {0, 1} :
                     pending' = <<Submission(u, UnlockPayment(i, 0),
                         ScriptContext(<<w, u>>, <<Successor(q, expected), Payout(1)>>,
                                       {ModelOwner}, r, {}, Spending))>>
                \/ \E i \in {0, 1, -1}, o \in {0, 1, -1} :
                     pending' = <<Submission(u, UnlockPayment(i, o),
                         ScriptContext(<<u>>, <<Payout(q), Successor(q, expected)>>,
                                       {ModelOwner}, r, {}, Spending))>>
                \/ pending' = <<Submission(u, UnlockPayment(0, 0),
                         ScriptContext(<<u>>,
                            <<TxOut(WalletAddress, MkValue(ADA, q), expected)>>,
                            {ModelOwner}, r, {}, Spending))>>
                \/ \E data \in {{}, {UnlockExpectedDatum(d)}} :
                     pending' = <<Submission(u, UnlockPayment(0, 0),
                         ScriptContext(<<u>>, <<Successor(q, hashed)>>,
                                       {ModelOwner}, r, data, Spending))>>
  /\ UNCHANGED <<utxos, due, pause_record, probe, outcome>>

\* a spend with PauseResumeSubscription
SubmitPauseResume ==
  /\ pending = <<>>
  /\ \E u \in utxos, r \in ClosedRanges, q \in Quantities, p \in BOOLEAN :
       LET d == DatumOf(u)
       IN \/ \E s \in Signers, od \in OutputDatums(d, r) :
               pending' = <<Submission(u, PauseResumeSubscription(p),
                   ScriptContext(<<u>>, <<Successor(q, od)>>, s, r, {}, Spending))>>
          \/ \E w \in WalletInputs :
               LET od == SomeOutputDatum(IF p THEN PauseExpectedDatum(d, LowerTime(r))
                                         ELSE ResumeExpectedDatum(d, LowerTime(r)))
               IN /\ DatumInBounds(od.datum[1])
                  /\ pending' = <<Submission(u, PauseResumeSubscription(p),
                        ScriptContext(<<w, u>>, <<Successor(q, od)>>,
                                      {ModelOwner}, r, {}, Spending))>>
  /\ UNCHANGED <<utxos, due, pause_record, probe, outcome>>

\* a spend with UpdateSubscription: cancel, top up, or replace the datum
SubmitUpdateSubscription ==
  /\ pending = <<>>
  /\ \E u \in utxos, s \in Signers, r \in ClosedRanges :
       LET d == DatumOf(u)
       IN \E outs \in {<<>>,
                       <<Payout(MaxQty)>>,
                       <<Successor(MaxQty, u.datum)>>,
                       <<Successor(1, SomeOutputDatum(
                            [d EXCEPT !.is_paused = FALSE,
                                      !.pause_start_time = FinitePOSIXTime(0)]))>>} :
            pending' = <<Submission(u, UpdateSubscription,
                ScriptContext(<<u>>, outs, s, r, {}, Spending))>>
  /\ UNCHANGED <<utxos, due, pause_record, probe, outcome>>

\* an invocation for another purpose, or with a redeemer of no known class
SubmitOther ==
  /\ pending = <<>>
  /\ \E u \in utxos, s \in Signers :
       LET r == POSIXTimeRange(LowerBoundPOSIXTime(FinitePOSIXTime(MaxTime), FALSE),
                               UpperBoundPOSIXTime(PosInfPOSIXTime, TRUE))
       IN
       \/ \E red \in {UnlockPayment(0, 0), UpdateSubscription,
                      PauseResumeSubscription(TRUE), PauseResumeSubscription(FALSE),
                      OtherRedeemer} :
            pending' = <<Submission(u, red,
                ScriptContext(<<u>>, <<Successor(MaxQty, u.datum)>>, s, r, {}, Minting))>>
       \/ pending' = <<Submission(u, OtherRedeemer,
                ScriptContext(<<u>>, <<Successor(MaxQty, u.datum)>>, s, r, {}, Spending))>>
  /\ UNCHANGED <<utxos, due, pause_record, probe, outcome>>

\* the outputs of a transaction that become locked subscription outputs:
\* those at the script address whose inline datum the builders can decode
\* (utxo.output.datum.cbor, e.g. redeem_subscription.py 36-40)
Locked(outputs) ==
  {outputs[k] : k \in {j \in 1..Len(outputs) :
       outputs[j].address = ScriptAddress /\ outputs[j].datum.kind = "SomeOutputDatum"}}

DueAfter(p) ==
  LET d == DatumOf(p.utxo)
      tx_info == p.context.tx_info
  IN IF d.owner_pubkeyhash \in tx_info.signatories \/ Locked(tx_info.outputs) = {}
     THEN <<>>
     ELSE IF p.redeemer.kind = "UnlockPayment"
     THEN <<d.next_payment_date.time + d.payment_intervall>>
     ELSE IF p.redeemer.kind = "PauseResumeSubscription" /\ ~p.redeemer.pause /\ due # <<>>
     THEN <<due[1] + (LowerTime(tx_info.valid_range) - d.pause_start_time.time)>>
     ELSE due

\* what a committed pause did: the next_payment_date it found, the validity
\* lower bound it carried and the successor output the validator examined
PauseRecordAfter(p) ==
  IF p.redeemer.kind = "PauseResumeSubscription" /\ p.redeemer.pause
  THEN <<[original |-> DatumOf(p.utxo).next_payment_date.time,
          lower |-> LowerTime(p.context.tx_info.valid_range),
          successor |-> At(p.context.tx_info.outputs, 0)]>>
  ELSE <<>>

\* a commit that does not look at the script's verdict
Commit_unchecked ==
  /\ pending # <<>>
  /\ utxos' = (utxos \ {pending[1].utxo}) \cup Locked(pending[1].context.tx_info.outputs)
  /\ pause_record' = PauseRecordAfter(pending[1])
  /\ pending' = <<>>
  /\ UNCHANGED <<probe, outcome>>

\* the ledger commits a transaction whose script invocation succeeded
Commit ==
  /\ pending # <<>>
  /\ pending[1].verdict = OK
  /\ utxos' = (utxos \ {pending[1].utxo}) \cup Locked(pending[1].context.tx_info.outputs)
  /\ pause_record' = PauseRecordAfter(pending[1])
  /\ pending' = <<>>
  /\ UNCHANGED <<probe, outcome>>

Apply ==
  /\ Commit
  /\ UNCHANGED due

\* the same commit, with the payment schedule followed in due
ApplyTracked ==
  /\ Commit
  /\ due' = DueAfter(pending[1])

\* the ledger refuses a transaction whose script invocation failed
Reject ==
  /\ pending # <<>>
  /\ pending[1].verdict # OK
  /\ pending' = <<>>
  /\ UNCHANGED <<utxos, due, pause_record, probe, outcome>>

Next ==
  \/ CreateSubscription
  \/ SubmitUnlockPayment
  \/ SubmitPauseResume
  \/ SubmitUpdateSubscription
  \/ SubmitOther
  \/ Apply
  \/ Reject

Spec == Init /\ [][Next]_vars

NextSchedule ==
  \/ CreateSubscription
  \/ SubmitUnlockPayment
  \/ SubmitPauseResume
  \/ SubmitUpdateSubscription
  \/ SubmitOther
  \/ ApplyTracked
  \/ Reject

SpecSchedule == Init /\ [][NextSchedule]_vars

\* ------------------------------------------- onchain/utils.py called alone
ExtendedTimes ==
  {NegInfPOSIXTime, PosInfPOSIXTime} \cup {FinitePOSIXTime(t) : t \in 0..MaxTime}

\* UpperBoundPOSIXTime and LowerBoundPOSIXTime have the same two fields
Bounds == {UpperBoundPOSIXTime(limit, closed) : limit \in ExtendedTimes, closed \in BOOLEAN}

\* the arguments of one call: an upper bound a, a lower bound b, a time b_time
InitCompare ==
  /\ utxos = {}
  /\ pending = <<>>
  /\ due = <<>>
  /\ pause_record = <<>>
  /\ outcome = <<>>
  /\ \E a \in Bounds, b \in Bounds, t \in 0..MaxTime :
       probe = <<[a |-> a, b |-> b, time |-> t, called |-> FALSE,
                  result |-> 0, after |-> FALSE]>>

\* compare_upper_lower_bound(a, b), and after_ext of a range whose lower
\* bound is b and of the time
Compare ==
  /\ probe # <<>>
  /\ ~probe[1].called
  /\ probe' = <<[probe[1] EXCEPT
        !.called = TRUE,
        !.result = compare_upper_lower_bound(probe[1].a, probe[1].b),
        !.after = after_ext(POSIXTimeRange(probe[1].b, probe[1].a),
                            FinitePOSIXTime(probe[1].time))]>>
  /\ UNCHANGED <<utxos, pending, due, pause_record, outcome>>

SpecCompare == InitCompare /\ [][Compare]_vars

\* --------------------------------- amount_of_token_in_output called alone
PolicyIds == {ADA.policy_id, TOK.policy_id}
TokenNames == {ADA.token_name, TOK.token_name}
Tokens == {[policy_id |-> p, token_name |-> n] : p \in PolicyIds, n \in TokenNames}

\* Value: Dict[PolicyId, Dict[TokenName, int]], every key present or absent
Values ==
  LET inner == UNION {[ns -> Quantities] : ns \in SUBSET TokenNames}
  IN UNION {[ps -> inner] : ps \in SUBSET PolicyIds}

\* the arguments of one call: a token and an output
InitAmount ==
  /\ utxos = {}
  /\ pending = <<>>
  /\ due = <<>>
  /\ pause_record = <<>>
  /\ outcome = <<>>
  /\ \E token \in Tokens, value \in Values :
       probe = <<[token |-> token,
                  output |-> TxOut(WalletAddress, value, NoOutputDatum),
                  called |-> FALSE, result |-> 0]>>

AmountOf ==
  /\ probe # <<>>
  /\ ~probe[1].called
  /\ probe' = <<[probe[1] EXCEPT
        !.called = TRUE,
        !.result = amount_of_token_in_output(probe[1].token, probe[1].output)]>>
  /\ UNCHANGED <<utxos, pending, due, pause_record, outcome>>

SpecAmount == InitAmount /\ [][AmountOf]_vars

\* ------------------------------ offchain/bulk_payment.py: one transaction
\* ------------------------------ that collects from several subscriptions
\* a UTxO: the reference that orders it among the inputs, and its output
UTxO(ref, output) == [ref |-> ref, output |-> output]

\* offchain/utils.py sorted_utxos: ascending (transaction id, index)
sorted_utxos(txs) ==
  CHOOSE sq \in [1..Len(txs) -> {txs[k] : k \in 1..Len(txs)}] :
    \A i \in 1..Len(txs), j \in 1..Len(txs) : i < j => sq[i].ref < sq[j].ref

\* list.index
IndexOf(sq, x) == (CHOOSE i \in 1..Len(sq) : sq[i] = x) - 1

RECURSIVE TotalPayment(_)
TotalPayment(subs) ==
  IF subs = <<>> THEN 0
  ELSE DatumOf(Head(subs).output).payment_amount + TotalPayment(Tail(subs))

\* the validity interval pycardano gives a transaction built at time now
BuiltRange(now) ==
  POSIXTimeRange(LowerBoundPOSIXTime(FinitePOSIXTime(now), TRUE),
                 UpperBoundPOSIXTime(FinitePOSIXTime(now + 1), TRUE))

\* every script input of a transaction validated with its own redeemer
Verdicts(subs, redeemers, context) ==
  [i \in 1..Len(subs) |-> validator(DatumOf(subs[i].output), redeemers[i], context)]

\* bulk_payment.py 143-155, for the subscription at position i (from 1)
BulkRedeemer(subs, all_inputs_sorted, i) ==
  UnlockPayment(IndexOf(all_inputs_sorted, subs[i]),
                Len(subs) - 1 - (i - 1))

\* bulk_payment.py 164-195
BulkOutput(sub) ==
  LET datum == DatumOf(sub.output)
      remaining_balance ==
        amount_of_token_in_output(ADA, sub.output) - datum.payment_amount
  IN TxOut(ScriptAddress, MkValue(ADA, remaining_balance),
           SomeOutputDatum(UnlockExpectedDatum(datum)))

\* the subscriptions find_redeemable_subscriptions returns (unpaused, due,
\* balance >= payment_amount), the model owner's UTxO and the time
Batches(n) ==
  LET subscriptions ==
        {TxOut(ScriptAddress, MkValue(ADA, balance),
            SomeOutputDatum(SubscriptionDatum(Owner, ModelOwner, FinitePOSIXTime(0),
               1, amount, ADA, FALSE, FinitePOSIXTime(0)))) :
           balance \in 1..MaxQty, amount \in 1..MaxAmount}
      redeemable == {o \in subscriptions :
           amount_of_token_in_output(ADA, o) >= DatumOf(o).payment_amount}
  IN {[subs |-> [i \in 1..n |-> UTxO(refs[i], outs[i])],
       wallet |-> UTxO(refs[n + 1], TxOut(WalletAddress, MkValue(ADA, MaxQty), NoOutputDatum)),
       now |-> now] :
        outs \in [1..n -> redeemable], refs \in Permutations(1..(n + 1)),
        now \in {1, MaxTime}}

InitBulk ==
  /\ utxos = {}
  /\ pending = <<>>
  /\ due = <<>>
  /\ pause_record = <<>>
  /\ outcome = <<>>
  /\ \E n \in 1..MaxSubs : \E b \in Batches(n) :
       probe = <<[subs |-> b.subs, wallet |-> b.wallet, now |-> b.now,
                  built |-> "", inputs |-> <<>>, context |-> <<>>,
                  redeemers |-> <<>>, verdicts |-> <<>>]>>

Built(kind, all_inputs_sorted, outputs, redeemers) ==
  LET context == ScriptContext(
        [k \in 1..Len(all_inputs_sorted) |-> all_inputs_sorted[k].output],
        outputs, {ModelOwner}, BuiltRange(probe[1].now), {}, Spending)
  IN <<[probe[1] EXCEPT
        !.built = kind,
        !.inputs = all_inputs_sorted,
        !.context = <<context>>,
        !.redeemers = redeemers,
        !.verdicts = Verdicts(probe[1].subs, redeemers, context)]>>

\* create_bulk_payment_transaction, and the validation of its script inputs
BuildBulk ==
  /\ probe # <<>>
  /\ probe[1].built = ""
  /\ LET subs == probe[1].subs
         all_inputs_sorted == sorted_utxos(<<probe[1].wallet>> \o subs)
         change == TxOut(WalletAddress,
                     MkValue(ADA, amount_of_token_in_output(ADA, probe[1].wallet.output)
                                  + TotalPayment(subs)), NoOutputDatum)
     IN probe' = Built("bulk", all_inputs_sorted,
                       [i \in 1..Len(subs) |-> BulkOutput(subs[i])] \o <<change>>,
                       [i \in 1..Len(subs) |-> BulkRedeemer(subs, all_inputs_sorted, i)])
  /\ UNCHANGED <<utxos, pending, due, pause_record, outcome>>

\* a transaction of the model owner's own making, in which every redeemer
\* names output 0 and input j, the first or the last
BuildShared ==
  /\ probe # <<>>
  /\ probe[1].built = ""
  /\ Len(probe[1].subs) > 1
  /\ LET subs == probe[1].subs
         all_inputs_sorted == sorted_utxos(<<probe[1].wallet>> \o subs)
     IN \E q \in Quantities, j \in {0, Len(subs)} :
          probe' = Built("shared", all_inputs_sorted,
                     <<Successor(q, SomeOutputDatum(
                          UnlockExpectedDatum(DatumOf(subs[1].output)))),
                       Payout(MaxQty)>>,
                     [i \in 1..Len(subs) |-> UnlockPayment(j, 0)])
  /\ UNCHANGED <<utxos, pending, due, pause_record, outcome>>

NextBulk ==
  \/ BuildBulk
  \/ BuildShared

SpecBulk == InitBulk /\ [][NextBulk]_vars

\* ------------------ offchain/model_owner/pause_resume_subscription.py
\* a locked subscription, the model owner's clock (datetime.utcnow) and the
\* time of the slot the transaction's validity starts at (the chain tip,
\* auto_validity_start_offset = 0), which the clock has reached
PauseCalls ==
  LET datums ==
        {SubscriptionDatum(Owner, ModelOwner, FinitePOSIXTime(t), 1, 1, ADA,
                           paused, FinitePOSIXTime(pstart)) :
           t \in 0..MaxTime, paused \in BOOLEAN, pstart \in 0..MaxTime}
  IN {[subscription |-> Successor(balance, SomeOutputDatum(d)),
       wallet_first |-> wf, current_time_ms |-> now, validity_start |-> start] :
        d \in {x \in datums : x.is_paused \/ x.pause_start_time.time = 0},
        balance \in 1..MaxQty, wf \in BOOLEAN,
        now \in 0..MaxTime, start \in 0..MaxTime}

InitPauseBuilder ==
  /\ utxos = {}
  /\ pending = <<>>
  /\ due = <<>>
  /\ pause_record = <<>>
  /\ outcome = <<>>
  /\ \E c \in {x \in PauseCalls : x.validity_start <= x.current_time_ms} :
       probe = <<[subscription |-> c.subscription, wallet_first |-> c.wallet_first,
                  current_time_ms |-> c.current_time_ms,
                  validity_start |-> c.validity_start,
                  built |-> "", submission |-> <<>>]>>

\* the transaction either builder makes around the datum it proposes, and
\* the validator's verdict on it
BuiltPauseResume(redeemer, proposed) ==
  LET call == probe[1]
      wallet == TxOut(WalletAddress, MkValue(ADA, MaxQty), NoOutputDatum)
      inputs == IF call.wallet_first THEN <<wallet, call.subscription>>
                ELSE <<call.subscription, wallet>>
      outputs == <<TxOut(ScriptAddress, call.subscription.value, SomeOutputDatum(proposed)),
                   wallet>>
      valid_range ==
        POSIXTimeRange(LowerBoundPOSIXTime(FinitePOSIXTime(call.validity_start), TRUE),
                       UpperBoundPOSIXTime(FinitePOSIXTime(call.validity_start + 1), TRUE))
  IN Submission(call.subscription, redeemer,
        ScriptContext(inputs, outputs, {ModelOwner}, valid_range, {}, Spending))

\* pause_subscription (pause_resume_subscription.py 100-169)
BuildPause ==
  /\ probe # <<>>
  /\ probe[1].built = ""
  /\ ~DatumOf(probe[1].subscription).is_paused
  /\ LET datum == DatumOf(probe[1].subscription)
         paused_datum ==
           SubscriptionDatum(datum.owner_pubkeyhash, datum.model_owner_pubkeyhash,
              datum.next_payment_date, datum.payment_intervall,
              datum.payment_amount, datum.payment_token,
              TRUE, FinitePOSIXTime(probe[1].current_time_ms))
     IN probe' = <<[probe[1] EXCEPT
          !.built = "pause",
          !.submission = <<BuiltPauseResume(PauseResumeSubscription(TRUE), paused_datum)>>]>>
  /\ UNCHANGED <<utxos, pending, due, pause_record, outcome>>

\* resume_subscription (pause_resume_subscription.py 226-307)
BuildResume ==
  /\ probe # <<>>
  /\ probe[1].built = ""
  /\ DatumOf(probe[1].subscription).is_paused
  /\ LET datum == DatumOf(probe[1].subscription)
         pause_duration_ms == probe[1].current_time_ms - datum.pause_start_time.time
         extended_payment_date ==
           FinitePOSIXTime(datum.next_payment_date.time + pause_duration_ms)
         resumed_datum ==
           SubscriptionDatum(datum.owner_pubkeyhash, datum.model_owner_pubkeyhash,
              extended_payment_date, datum.payment_intervall,
              datum.payment_amount, datum.payment_token,
              FALSE, FinitePOSIXTime(0))
     IN probe' = <<[probe[1] EXCEPT
          !.built = "resume",
          !.submission = <<BuiltPauseResume(PauseResumeSubscription(FALSE), resumed_datum)>>]>>
  /\ UNCHANGED <<utxos, pending, due, pause_record, outcome>>

NextPauseBuilder ==
  \/ BuildPause
  \/ BuildResume

SpecPauseBuilder == InitPauseBuilder /\ [][NextPauseBuilder]_vars

\* ------------------------- two transactions that consume the same output
\* the transactions the two parties' builders and their impostors make
\* against the locked output u: a collection (redeem_subscription.py) that
\* leaves q behind, and an update without successor (cancel_subscription.py)
\* or with a refilled one
RaceTxs(u) ==
  LET d == DatumOf(u)
      late == POSIXTimeRange(LowerBoundPOSIXTime(FinitePOSIXTime(MaxTime), FALSE),
                             UpperBoundPOSIXTime(PosInfPOSIXTime, TRUE))
      early == POSIXTimeRange(LowerBoundPOSIXTime(NegInfPOSIXTime, TRUE),
                              UpperBoundPOSIXTime(PosInfPOSIXTime, TRUE))
      collections ==
        IF DatumInBounds(UnlockExpectedDatum(d))
        THEN {Submission(u, UnlockPayment(0, 0),
                ScriptContext(<<u>>,
                   <<Successor(q, SomeOutputDatum(UnlockExpectedDatum(d)))>>,
                   s, r, {}, Spending)) :
                q \in Quantities, s \in {{ModelOwner}, {}}, r \in {late, early}}
        ELSE {}
      updates ==
        {Submission(u, UpdateSubscription,
            ScriptContext(<<u>>, outs, s, late, {}, Spending)) :
            outs \in {<<>>, <<Successor(MaxQty, u.datum)>>},
            s \in {{Owner}, {ModelOwner}}}
  IN collections \cup updates

\* both parties build a transaction against the same on-ledger state
SubmitPair ==
  /\ pending = <<>>
  /\ outcome = <<>>
  /\ \E u \in utxos : \E t1 \in RaceTxs(u), t2 \in RaceTxs(u) :
       /\ t1 # t2
       /\ pending' = <<t1, t2>>
  /\ outcome' = <<"waiting", "waiting">>
  /\ UNCHANGED <<utxos, due, pause_record, probe>>

\* a transaction's input is spent once a transaction consuming it was applied
InputUnspent_ignored(k) == TRUE

\* the ledger lets at most one transaction consume a given output
InputUnspent(k) == \A j \in DOMAIN outcome : outcome[j] # "applied"

\* one of the two transactions reaches the ledger, in either order
Arrive ==
  /\ \E k \in DOMAIN outcome :
       /\ outcome[k] = "waiting"
       /\ IF pending[k].verdict = OK /\ InputUnspent(k)
          THEN /\ utxos' = (utxos \ {pending[k].utxo})
                              \cup Locked(pending[k].context.tx_info.outputs)
               /\ outcome' = [outcome EXCEPT ![k] = "applied"]
          ELSE /\ utxos' = utxos
               /\ outcome' = [outcome EXCEPT ![k] = "rejected"]
  /\ UNCHANGED <<pending, due, pause_record, probe>>

\* both transactions have been dealt with
Settle ==
  /\ outcome # <<>>
  /\ \A k \in DOMAIN outcome : outcome[k] # "waiting"
  /\ pending' = <<>>
  /\ outcome' = <<>>
  /\ UNCHANGED <<utxos, due, pause_record, probe>>

NextRace ==
  \/ CreateSubscription
  \/ SubmitPair
  \/ Arrive
  \/ Settle

SpecRace == Init /\ [][NextRace]_vars

\* ------------------------------------------- the lookups of UnlockPayment
\* the indices a redeemer may carry for a list: every position of the list
\* counted from either end, and one step past each end
IndicesAround(l) == (0 - Len(l) - 1)..Len(l)

\* a spend with UnlockPayment whose redeemer names any input and any output,
\* in or out of the transaction's lists, with any signers and validity
\* range; the successor carries the datum unadvanced as
\* redeem_subscription.py writes it, and the fee is paid from a wallet
\* output
SubmitUnlockAt ==
  /\ pending = <<>>
  /\ \E u \in utxos, s \in Signers, r \in ValidRanges :
       \E ins \in {<<u>>, <<Payout(MaxQty), u>>},
          outs \in {<<>>, <<Successor(MaxQty, u.datum)>>,
                    <<Successor(MaxQty, u.datum), Payout(1)>>} :
         \E i \in IndicesAround(ins), o \in IndicesAround(outs) :
           pending' = <<Submission(u, UnlockPayment(i, o),
               ScriptContext(ins, outs, s, r, {}, Spending))>>
  /\ UNCHANGED <<utxos, due, pause_record, probe, outcome>>

NextLookup ==
  \/ CreateSubscription
  \/ SubmitPauseResume
  \/ SubmitUnlockAt
  \/ Apply
  \/ Reject

SpecLookup == Init /\ [][NextLookup]_vars

\* ------------------------------------------------ the submitted transaction
Validated == pending # <<>>
Verdict == pending[1].verdict
Accepted == Validated /\ Verdict = OK
Datum == DatumOf(pending[1].utxo)
Redeemer == pending[1].redeemer
TxInfo == pending[1].context.tx_info
IsSpending == pending[1].context.purpose.kind = "Spending"
IsUnlock == Validated /\ IsSpending /\ Redeemer.kind = "UnlockPayment"
IsPauseResume == Validated /\ IsSpending /\ Redeemer.kind = "PauseResumeSubscription"
IsUpdate == Validated /\ IsSpending /\ Redeemer.kind = "UpdateSubscription"

\* the input and the output the validator reads for the redeemer
IndicesExist ==
  IF Redeemer.kind = "UnlockPayment"
  THEN InRange(TxInfo.inputs, Redeemer.input_index)
       /\ InRange(TxInfo.outputs, Redeemer.output_index)
  ELSE InRange(TxInfo.inputs, 0) /\ InRange(TxInfo.outputs, 0)
ReadInput ==
  IF Redeemer.kind = "UnlockPayment" THEN At(TxInfo.inputs, Redeemer.input_index)
  ELSE At(TxInfo.inputs, 0)
ReadOutput ==
  IF Redeemer.kind = "UnlockPayment" THEN At(TxInfo.outputs, Redeemer.output_index)
  ELSE At(TxInfo.outputs, 0)
InputQty == amount_of_token_in_output(Datum.payment_token, ReadInput)
OutputQty == amount_of_token_in_output(Datum.payment_token, ReadOutput)
ConsumedQty == amount_of_token_in_output(Datum.payment_token, pending[1].utxo)
OutputHasDatum == resolve_datum_unsafe(ReadOutput, TxInfo)[1] = OK
OutputDatum == resolve_datum_unsafe(ReadOutput, TxInfo)[2][1]
ModelOwnerSigned == Datum.model_owner_pubkeyhash \in TxInfo.signatories
OwnerSigned == Datum.owner_pubkeyhash \in TxInfo.signatories
Lower == TxInfo.valid_range.lower_bound

\* an UnlockPayment that passes every guard before the funds guard and
\* whose successor output carries a datum
UnlockUpToFunds ==
  /\ IsUnlock
  /\ IndicesExist
  /\ ModelOwnerSigned
  /\ ~Datum.is_paused
  /\ after_ext(TxInfo.valid_range, Datum.next_payment_date)
  /\ OutputHasDatum

\* ----------------------------------------------------------------- claims

C2_ModelOwnerRequired ==
  (IsUnlock \/ IsPauseResume) /\ ~ModelOwnerSigned => Verdict # OK

\* a pause or an unlock signed by the owner alone is rejected for the
\* missing model-owner signature
C2_Witness ==
  /\ IsUnlock \/ IsPauseResume
  /\ IndicesExist
  /\ TxInfo.signatories = {Datum.owner_pubkeyhash}
  /\ Verdict \in {"Required Model Owner Signature missing",
                  "Required Model Owner Signature missing for pause/resume"}

\* C3: a spending UpdateSubscription is accepted if and only if the owner
\* has signed, whatever the other signers, the pause state, the validity
\* interval, the quantities and the outputs are.
C3_UpdateIffOwner ==
  IsUpdate => ((Verdict = OK) <=> OwnerSigned)

\* the owner alone cancels a paused subscription with no successor output
C3_Witness ==
  /\ IsUpdate
  /\ Datum.is_paused
  /\ TxInfo.signatories = {Datum.owner_pubkeyhash}
  /\ TxInfo.outputs = <<>>
  /\ Verdict = OK

\* C4: with is_paused = true an UnlockPayment is rejected whatever the
\* signers, the validity interval and the proposed output are, so nothing
\* is collected while the committed datum is paused.
C4_PausedBlocksUnlock ==
  Validated /\ Redeemer.kind = "UnlockPayment" /\ Datum.is_paused => Verdict # OK

\* an otherwise valid collection from a paused subscription is rejected as paused
C4_Witness ==
  /\ IsUnlock
  /\ IndicesExist
  /\ Datum.is_paused
  /\ ModelOwnerSigned
  /\ after_ext(TxInfo.valid_range, Datum.next_payment_date)
  /\ OutputQty > InputQty - Datum.payment_amount
  /\ OutputHasDatum
  /\ Verdict = "Cannot unlock payment while subscription is paused"

\* the validity interval's lower bound is before t, or closed and equal to t
NotEntirelyAfter(lower, t) ==
  \/ lower.limit.kind = "NegInf"
  \/ /\ lower.limit.kind = "Finite"
     /\ \/ lower.limit.time < t
        \/ lower.limit.time = t /\ lower.closed

\* C5: an UnlockPayment is rejected whenever the validity interval's lower
\* bound is before next_payment_time, and also when it is closed and equal
\* to next_payment_time.
C5_NotDueRejected ==
  Validated /\ Redeemer.kind = "UnlockPayment"
    /\ NotEntirelyAfter(Lower, Datum.next_payment_date.time)
  => Verdict # OK

\* validity interval [T, ...] closed at T = next_payment_time: rejected by
\* the due-date guard, every other guard being satisfied
C5_Witness ==
  /\ IsUnlock
  /\ IndicesExist
  /\ ModelOwnerSigned
  /\ ~Datum.is_paused
  /\ Lower = LowerBoundPOSIXTime(Datum.next_payment_date, TRUE)
  /\ OutputQty > InputQty - Datum.payment_amount
  /\ OutputHasDatum
  /\ Verdict = ""

\* C6: for every accepted UnlockPayment the successor output's datum has
\* next_payment_time = consumed next_payment_time + payment_interval.
C6_ScheduleAdvanced ==
  IsUnlock /\ Accepted =>
    OutputDatum.next_payment_date.time
      = Datum.next_payment_date.time + Datum.payment_intervall

\* C7: in a run the owner has not signed, after an UnlockPayment accepted
\* against next_payment_time = T the next UnlockPayment is accepted only with
\* a validity interval entirely after T + payment_interval (plus the pause
\* durations added by resumes in between).
C7_OneInstallmentPerInterval ==
  IsUnlock /\ Accepted /\ ~OwnerSigned /\ due # <<>> =>
    after_ext(TxInfo.valid_range, FinitePOSIXTime(due[1]))

\* the five fields of the datum that fix the parties and the price
SameTerms(a, b) ==
  /\ a.owner_pubkeyhash = b.owner_pubkeyhash
  /\ a.model_owner_pubkeyhash = b.model_owner_pubkeyhash
  /\ a.payment_intervall = b.payment_intervall
  /\ a.payment_amount = b.payment_amount
  /\ a.payment_token = b.payment_token

\* C8: every accepted UnlockPayment and PauseResumeSubscription leaves
\* owner_hash, model_owner_hash, payment_interval, payment_amount and
\* payment_asset of the successor datum equal to the consumed datum's.
C8_TermsPreserved ==
  (IsUnlock \/ IsPauseResume) /\ Accepted => SameTerms(OutputDatum, Datum)

C10_NoFundsAdded ==
  IsUnlock /\ Accepted => OutputQty <= InputQty

\* C10 amended: for every accepted UnlockPayment, outputQty >= inputQty -
\* payment_amount + 1; the validator sets no upper limit on outputQty.
C10_AtLeastAllButOneInstallment ==
  IsUnlock /\ Accepted => OutputQty >= InputQty - Datum.payment_amount + 1

\* an accepted UnlockPayment whose successor output holds more than the
\* consumed output
C10_Witness ==
  /\ IsUnlock /\ Accepted
  /\ ReadInput = pending[1].utxo
  /\ OutputQty > InputQty

IsPause == IsPauseResume /\ Redeemer.pause
IsResume == IsPauseResume /\ ~Redeemer.pause

C15_ReasonWheneverSigned ==
  IsPauseResume /\ (Redeemer.pause <=> Datum.is_paused) =>
    /\ Verdict # OK
    /\ ModelOwnerSigned =>
         Verdict = IF Redeemer.pause THEN "Subscription is already paused"
                   ELSE "Subscription is not paused"

\* the instant x is before the instant y: -infinity < finite < +infinity
Before(x, y) ==
  \/ x.kind = "NegInf" /\ y.kind # "NegInf"
  \/ x.kind # "PosInf" /\ y.kind = "PosInf"
  \/ x.kind = "Finite" /\ y.kind = "Finite" /\ x.time < y.time

\* C16: compare_upper_lower_bound(a, b) is 1 when a's instant is before b's,
\* -1 when it is after, and for equal instants 0 only if both bounds are
\* closed and 1 otherwise; after_ext(range, t) is true exactly when t is
\* before the range's lower-bound instant, or equal to it while that bound
\* is open (false for a lower bound -infinity, true for +infinity).
C16_BoundComparison ==
  probe # <<>> /\ probe[1].called =>
    LET a == probe[1].a
        b == probe[1].b
        t == probe[1].time
    IN /\ probe[1].result =
            IF Before(a.limit, b.limit) THEN 1
            ELSE IF Before(b.limit, a.limit) THEN -1
            ELSE IF a.closed /\ b.closed THEN 0 ELSE 1
       /\ probe[1].after <=>
            \/ b.limit.kind = "PosInf"
            \/ /\ b.limit.kind = "Finite"
               /\ \/ t < b.limit.time
                  \/ t = b.limit.time /\ ~b.closed

\* equal finite instants, upper bound closed and lower bound open: "less",
\* and the time equal to the open lower bound is entirely before the range
C16_Witness ==
  /\ probe # <<>> /\ probe[1].called
  /\ probe[1].a.limit = probe[1].b.limit
  /\ probe[1].a.limit.kind = "Finite"
  /\ probe[1].a.closed /\ ~probe[1].b.closed
  /\ probe[1].time = probe[1].b.limit.time
  /\ probe[1].result = 1
  /\ probe[1].after

KnownRedeemers == {"UnlockPayment", "UpdateSubscription", "PauseResumeSubscription"}

\* C19: whatever the redeemer, datum and transaction are, an invocation
\* whose purpose is not Spending is rejected with "Wrong type of script
\* invocation": the check precedes the signature checks and the
\* invalid-redeemer check.
C19_PurposeCheckedFirst ==
  Validated /\ ~IsSpending => Verdict = "Wrong type of script invocation"

\* a minting invocation with a redeemer of no known class and no signer:
\* the later guards would refuse it for their own reasons
C19_Witness ==
  /\ Validated
  /\ pending[1].context.purpose.kind = "Minting"
  /\ Redeemer.kind \notin KnownRedeemers
  /\ TxInfo.signatories = {}
  /\ Verdict = "Wrong type of script invocation"

\* C20: in a spending invocation a redeemer that is none of UnlockPayment,
\* UpdateSubscription and PauseResumeSubscription is rejected with "Invalid
\* Redeemer" whatever the signers are, and each known redeemer gets the
\* verdict of its own branch and never "Invalid Redeemer".
C20_DispatchByRedeemer ==
  Validated /\ IsSpending =>
    /\ Redeemer.kind \notin KnownRedeemers => Verdict = "Invalid Redeemer"
    /\ Redeemer.kind \in KnownRedeemers => Verdict # "Invalid Redeemer"
    /\ Redeemer.kind = "UpdateSubscription" =>
         Verdict = UpdateSubscriptionBranch(Datum, TxInfo)
    /\ Redeemer.kind = "UnlockPayment" =>
         Verdict = UnlockPaymentBranch(Datum, Redeemer, TxInfo)
    /\ Redeemer.kind = "PauseResumeSubscription" =>
         Verdict = PauseResumeBranch(Datum, Redeemer, TxInfo)

\* a spend with an unknown redeemer signed by both parties
C20_Witness ==
  /\ Validated /\ IsSpending
  /\ Redeemer.kind \notin KnownRedeemers
  /\ TxInfo.signatories = {Owner, ModelOwner}
  /\ Verdict = "Invalid Redeemer"

C22_EveryRejectionHasReason ==
  Validated /\ Verdict # OK => Verdict # ""

\* C23: of two transactions that consume the same locked output at most
\* one is applied, whichever arrives first; the other is rejected without
\* effect, and the locked outputs are those of exactly one of them (or the
\* original output when the validator refuses both).
C23_AtMostOneApplied ==
  outcome # <<>> =>
    LET applied == {k \in DOMAIN outcome : outcome[k] = "applied"}
    IN /\ Cardinality(applied) <= 1
       /\ applied = {} => utxos = {pending[1].utxo}
       /\ \A k \in applied : utxos = Locked(pending[k].context.tx_info.outputs)
       /\ \A k \in DOMAIN outcome :
            outcome[k] = "rejected" => pending[k].verdict # OK \/ applied # {}

\* the model owner's collection and the owner's cancellation, each valid on
\* its own: the cancellation arrived first and the collection was refused
C23_Witness ==
  /\ outcome = <<"rejected", "applied">>
  /\ pending[1].redeemer.kind = "UnlockPayment" /\ pending[1].verdict = OK
  /\ pending[2].redeemer.kind = "UpdateSubscription" /\ pending[2].verdict = OK
  /\ pending[2].context.tx_info.outputs = <<>>
  /\ utxos = {}

\* C24: amount_of_token_in_output(token, output) is the quantity recorded
\* in the output's value under (token.policy_id, token.token_name), and 0
\* when the policy id or the token name is absent from the value.
C24_AmountOfToken ==
  probe # <<>> /\ probe[1].called =>
    LET value == probe[1].output.value
        p == probe[1].token.policy_id
        n == probe[1].token.token_name
    IN probe[1].result =
         IF p \in DOMAIN value
         THEN (IF n \in DOMAIN value[p] THEN value[p][n] ELSE 0)
         ELSE 0

\* a token whose policy id is absent from a value that holds ADA under the
\* same token name: 0
C24_Witness ==
  /\ probe # <<>> /\ probe[1].called
  /\ probe[1].token = [policy_id |-> TOK.policy_id, token_name |-> ADA.token_name]
  /\ DOMAIN probe[1].output.value = {ADA.policy_id}
  /\ ADA.token_name \in DOMAIN probe[1].output.value[ADA.policy_id]
  /\ probe[1].output.value[ADA.policy_id][ADA.token_name] > 0
  /\ probe[1].result = 0

\* the transaction in probe and the positions of its script inputs
BulkSubs == probe[1].subs
BulkAccepted(i) == probe[1].verdicts[i] = OK

\* C25: in a transaction that spends several subscription outputs with
\* UnlockPayment, every accepted validation is made against the consumed
\* subscription output itself (input_index denotes it), and no two accepted
\* validations are made against the same output_index.
C25_OwnInputOwnOutput ==
  probe # <<>> /\ probe[1].built # "" /\ Len(BulkSubs) > 1 =>
    \A i \in DOMAIN BulkSubs :
      BulkAccepted(i) =>
        /\ InRange(probe[1].inputs, probe[1].redeemers[i].input_index)
        /\ At(probe[1].inputs, probe[1].redeemers[i].input_index) = BulkSubs[i]
        /\ \A j \in DOMAIN BulkSubs :
             j # i /\ BulkAccepted(j) =>
               probe[1].redeemers[j].output_index
                 # probe[1].redeemers[i].output_index

\* C26: the UnlockPayment transaction create_bulk_payment_transaction
\* builds for due, unpaused subscriptions whose balance is at least
\* payment_amount, signed by the model owner, is accepted by the validator
\* for every subscription it collects from.
C26_BuiltCollectionAccepted ==
  probe # <<>> /\ probe[1].built = "bulk" =>
    \A i \in DOMAIN BulkSubs : BulkAccepted(i)

\* C27: in the transaction create_bulk_payment_transaction builds, each
\* subscription's redeemer has the input_index of that subscription's
\* output in the sorted inputs and the output_index of the output carrying
\* that subscription's successor datum and remaining balance.
C27_RedeemerIndices ==
  probe # <<>> /\ probe[1].built = "bulk" =>
    \A i \in DOMAIN BulkSubs :
      LET redeemer == probe[1].redeemers[i]
          datum == DatumOf(BulkSubs[i].output)
          own_output == At(probe[1].context[1].tx_info.outputs, redeemer.output_index)
      IN /\ At(probe[1].inputs, redeemer.input_index) = BulkSubs[i]
         /\ own_output.address = ScriptAddress
         /\ own_output.datum = SomeOutputDatum(
              [datum EXCEPT !.next_payment_date = FinitePOSIXTime(
                 datum.next_payment_date.time + datum.payment_intervall)])
         /\ amount_of_token_in_output(ADA, own_output)
              = amount_of_token_in_output(ADA, BulkSubs[i].output)
                  - datum.payment_amount

C29_SuccessorAtScriptAddress ==
  (IsUnlock \/ IsPauseResume) /\ Accepted =>
    /\ ReadOutput.address = pending[1].utxo.address
    /\ ReadOutput.address = ScriptAddress

\* the datum a pause or a resume with the submitted redeemer must produce
PauseResumeSuccessor ==
  IF Redeemer.pause
  THEN [Datum EXCEPT !.is_paused = TRUE, !.pause_start_time = Lower.limit]
  ELSE [Datum EXCEPT !.is_paused = FALSE,
          !.pause_start_time = [kind |-> "Finite", time |-> 0],
          !.next_payment_date = [kind |-> "Finite",
             time |-> Datum.next_payment_date.time
                      + (Lower.limit.time - Datum.pause_start_time.time)]]

C31_MissingIndexNeverAccepted ==
  Validated /\ Redeemer.kind = "UnlockPayment" /\ ~IndicesExist =>
    /\ Verdict # OK
    /\ IsSpending => Verdict = "IndexError"

\* an unsigned UnlockPayment on a paused subscription whose input_index is
\* one past the last input: it ends with the failed lookup
C31_Witness ==
  /\ IsUnlock
  /\ Redeemer.input_index = Len(TxInfo.inputs)
  /\ InRange(TxInfo.outputs, Redeemer.output_index)
  /\ ~ModelOwnerSigned
  /\ Datum.is_paused
  /\ Verdict = "IndexError"

====
